---- MODULE Spec2Model ----
(***************************************************************************)
(* Model of the westend-migrate bot: the limits negotiation, the control   *)
(* loop of MigrationBot::run, the submission pipeline of                   *)
(* MigrationBot::submit_migration, wait_for_pending_tx, and the pure       *)
(* classifiers of error.rs and utils.rs.                                   *)
(*                                                                         *)
(* Texts (error messages, debug renderings) are sequences of symbols; a    *)
(* symbol is a single character or an indivisible phrase.  str::contains   *)
(* is a search for a contiguous run of symbols.                            *)
(***************************************************************************)
EXTENDS Integers, Sequences, FiniteSets, TLC

\* ------------------------------------------------------------------ bounds
MaxNonce == 2          \* largest account next-index the chain reaches
MaxSuccess == 2        \* cap on successful_runs when --runs is 0 (unlimited)
MaxBalance == 1        \* balances read from the chain are 0..MaxBalance
TickSecs == 120        \* granularity of elapsed time in the finalization wait
MaxElapsed == 240      \* the clock of one finalization wait stops here

\* ------------------------------------------------------- program constants
MAX_CONSECUTIVE_ERRORS == 5
MAX_DRY_RUN_RETRIES == 3
PENDING_TX_TIMEOUT_ITERATIONS == 20
BLOCK_TIME_SECS == 6
NONCE_RETRY_WAIT_SECS == 30
RETRY_WAIT_SECS == 12
BANNED_TX_WAIT_SECS == 60
FinalizationTimeoutSecs == 120
DefaultItemLimit == 4096
DefaultSizeLimit == 409600
WndDecimals == 12       \* 1 WND = 10^12 units

\* ------------------------------------------------------------------- texts
\* str::contains: pat occurs in text as a contiguous run of symbols
Contains(text, pat) ==
    \E i \in 0..(Len(text) - Len(pat)) :
        \A j \in 1..Len(pat) : text[i + j] = pat[j]

HexDigits == <<"0", "1", "2", "3", "4", "5", "6", "7",
               "8", "9", "a", "b", "c", "d", "e", "f">>

\* hex::encode: two lowercase hex digits per byte
RECURSIVE HexEncode(_)
HexEncode(bytes) ==
    IF bytes = <<>> THEN <<>>
    ELSE <<HexDigits[(Head(bytes) \div 16) + 1], HexDigits[(Head(bytes) % 16) + 1]>>
         \o HexEncode(Tail(bytes))

\* variant: a missing byte reads as 3
GetOr_Stale(bytes, i, d) == IF i < Len(bytes) THEN bytes[i + 1] ELSE 3

\* variant: the index is taken one byte too far
GetOr_Shifted(bytes, i, d) == IF i + 1 < Len(bytes) THEN bytes[i + 2] ELSE d

\* slice::get(i).unwrap_or(&d), with i a zero-based index
GetOr(bytes, i, d) == IF i < Len(bytes) THEN bytes[i + 1] ELSE d

\* --------------------------------------------------------- ValidityError
VE(v) == [v |-> v, text |-> <<>>]
VEOther(text) == [v |-> "Other", text |-> text]

\* variant: the Result::Err marker is taken to be always there
ErrorStart_Fixed(raw_bytes) == 1

\* the index of the family byte: after the Result::Err marker when it is there
ErrorStart(raw_bytes) == IF raw_bytes[1] = 1 THEN 1 ELSE 0

decode_validity_error(raw_bytes) ==
    IF raw_bytes = <<>> THEN VEOther(<<"empty response">>)
    ELSE
      LET error_start == ErrorStart(raw_bytes) IN
      IF Len(raw_bytes) <= error_start
      THEN VEOther(<<"raw: 0x">> \o HexEncode(raw_bytes))
      ELSE
        LET validity_type == GetOr(raw_bytes, error_start, 255)
            sub_type == GetOr(raw_bytes, error_start + 1, 255)
            custom == GetOr(raw_bytes, error_start + 2, 0)
        IN
        CASE validity_type = 0 ->
               (CASE sub_type = 1 -> VE("Payment")
                  [] sub_type = 2 -> VE("Future")
                  [] sub_type = 3 -> VE("Stale")
                  [] sub_type = 4 -> VE("BadProof")
                  [] sub_type = 5 -> VE("AncientBirthBlock")
                  [] sub_type = 6 -> VE("ExhaustsResources")
                  [] sub_type = 0 -> VEOther(<<"Invalid::Call">>)
                  [] sub_type = 7 -> VEOther(<<"Invalid::Custom", ToString(custom)>>)
                  [] sub_type = 8 -> VEOther(<<"Invalid::BadMandatory">>)
                  [] sub_type = 9 -> VEOther(<<"Invalid::MandatoryValidation">>)
                  [] sub_type = 10 -> VE("BadProof")
                  [] OTHER -> VEOther(<<"Invalid::Unknown", ToString(sub_type)>>))
          [] validity_type = 1 ->
               (CASE sub_type = 0 -> VEOther(<<"Unknown::CannotLookup">>)
                  [] sub_type = 1 -> VEOther(<<"Unknown::NoUnsignedValidator">>)
                  [] sub_type = 2 -> VEOther(<<"Unknown::Custom", ToString(custom)>>)
                  [] OTHER -> VEOther(<<"Unknown::Unknown", ToString(sub_type)>>))
          [] OTHER -> VEOther(<<"UnrecognizedError", ToString(validity_type), "raw=0x">>
                              \o HexEncode(raw_bytes))

\* impl fmt::Display for ValidityError
ValidityErrorDisplay(ve) ==
    CASE ve.v = "Stale" -> <<"Stale - nonce too low">>
      [] ve.v = "Future" -> <<"Future - nonce too high">>
      [] ve.v = "Priority" -> <<"Priority too low - pool conflict">>
      [] ve.v = "Payment" -> <<"Payment - unable to pay fees">>
      [] ve.v = "BadProof" -> <<"BadProof - invalid signature">>
      [] ve.v = "AncientBirthBlock" -> <<"AncientBirthBlock - transaction mortality expired">>
      [] ve.v = "ExhaustsResources" -> <<"ExhaustsResources - would exhaust block resources">>
      [] OTHER -> ve.text

\* -------------------------------------------------------- MigrationError
\* A failure value: kind is the MigrationError variant, or "Anyhow" for an
\* anyhow::Error that is not a MigrationError; detail is its payload.
Err(kind, detail) == [kind |-> kind, detail |-> detail]
OkResult == [kind |-> "Ok", detail |-> <<>>]
NoResult == [kind |-> "None", detail |-> <<>>]

is_recoverable(err) ==
    err.kind \in {"PoolConflict", "NonceStale", "NonceFuture", "TxBanned", "RpcError"}

\* variant: a banned transaction waits for the pool as well
requires_pool_wait_WithBanned(err) ==
    err.kind \in {"PoolConflict", "NonceStale", "TxBanned"}

requires_pool_wait(err) ==
    err.kind \in {"PoolConflict", "NonceStale"}

\* variant: the stale-nonce markers are tested first
from_rpc_error_Reordered(err_str) ==
    IF Contains(err_str, <<"1", "0", "1", "0">>) \/ Contains(err_str, <<"bad signature">>)
    THEN Err("NonceStale", <<>>)
    ELSE IF Contains(err_str, <<"1", "0", "1", "4">>) \/ Contains(err_str, <<"Priority is too low">>)
    THEN Err("PoolConflict", <<>>)
    ELSE IF Contains(err_str, <<"1", "0", "1", "2">>) \/ Contains(err_str, <<"temporarily banned">>)
    THEN Err("TxBanned", <<>>)
    ELSE Err("SubmissionFailed", err_str)

from_rpc_error(err_str) ==
    IF Contains(err_str, <<"1", "0", "1", "4">>) \/ Contains(err_str, <<"Priority is too low">>)
    THEN Err("PoolConflict", <<>>)
    ELSE IF Contains(err_str, <<"1", "0", "1", "0">>) \/ Contains(err_str, <<"bad signature">>)
    THEN Err("NonceStale", <<>>)
    ELSE IF Contains(err_str, <<"1", "0", "1", "2">>) \/ Contains(err_str, <<"temporarily banned">>)
    THEN Err("TxBanned", <<>>)
    ELSE Err("SubmissionFailed", err_str)

from_validity_error(ve) ==
    CASE ve.v = "Stale" -> Err("NonceStale", <<>>)
      [] ve.v = "Future" -> Err("NonceFuture", <<>>)
      [] ve.v = "Priority" -> Err("PoolConflict", <<>>)
      [] OTHER -> Err("ValidityError", ve)

\* the thiserror Display of a failure (to_string)
ErrorDisplay(err) ==
    CASE err.kind = "PoolConflict" -> <<"Pool conflict: another transaction is pending (code 1014)">>
      [] err.kind = "NonceStale" -> <<"Stale nonce: transaction already applied or pending">>
      [] err.kind = "NonceFuture" -> <<"Future nonce: previous transaction not yet applied">>
      [] err.kind = "TxBanned" -> <<"Transaction temporarily banned from pool">>
      [] err.kind = "DryRunDispatchError" -> <<"Dry run dispatch error: ">> \o err.detail
      [] err.kind = "SizeExceeded" -> <<"SizeUpperBoundExceeded - reduce item_limit to avoid slashing">>
      [] err.kind = "ValidityError" -> <<"Transaction validity error: ">> \o ValidityErrorDisplay(err.detail)
      [] err.kind = "RpcError" -> <<"RPC request failed: ">> \o err.detail
      [] err.kind = "SubmissionFailed" -> <<"Transaction submission failed: ">> \o err.detail
      [] err.kind = "TxDropped" -> <<"Transaction dropped: ">> \o err.detail
      [] err.kind = "ZeroBalance" -> <<"Account has zero balance - transactions will fail">>
      [] err.kind = "BalanceDecreased" -> <<"Balance decreased by ", ToString(err.detail.units), "e-", ToString(err.detail.decimals), " WND">>
      [] OTHER -> err.detail

\* ------------------------------------------------------------ utils.rs
\* units as f64 / 1e12, kept exact: the amount is units * 10^(-decimals) WND
units_to_wnd(units) == [units |-> units, decimals |-> WndDecimals]

NoLoss == [units |-> -1, decimals |-> 0]

\* variant: the subtraction is made whenever the balances differ
check_balance_decrease_Unguarded(before, after) ==
    IF after = before THEN NoLoss ELSE units_to_wnd(before - after)

\* variant: a loss of a single unit goes unreported
check_balance_decrease_Lenient(before, after) ==
    IF after + 1 < before THEN units_to_wnd(before - after) ELSE NoLoss

\* Option<f64>: NoLoss stands for None
check_balance_decrease(before, after) ==
    IF after < before THEN units_to_wnd(before - after) ELSE NoLoss

\* variant: one finished trie is enough
is_complete_Either(status) == status.top_complete \/ status.child_complete

is_complete(status) == status.top_complete /\ status.child_complete

\* ------------------------------------------------------------ inputs
LimitChoices == {0, 7}                 \* --item-limit / --size-limit
RunsChoices == {0, 2}                  \* --runs
NoLimits == <<>>                       \* get_max_limits returned None
ChainLimitsChoices == {NoLimits, <<5, 9>>}   \* Some((max_size, max_item))
Balances == 0..MaxBalance
NoBalance == -1                        \* balance not read in this iteration
QueryError == -2                       \* Err(_) of a query that returns a number
LimitsReplies == {[ok |-> FALSE, limits |-> NoLimits]}
                 \cup {[ok |-> TRUE, limits |-> l] : l \in ChainLimitsChoices}
NoTask == [top_complete |-> FALSE, child_complete |-> FALSE, present |-> FALSE]
TaskChoices == [top_complete : BOOLEAN, child_complete : BOOLEAN, present : {TRUE}]

DispatchErrorTexts == {<<"Module", "SizeUpperBoundExceeded">>, <<"Module", "BadWitness">>}
ValidityByteChoices == {<<1, 0, 3>>, <<0, 3>>, <<1, 0, 2>>, <<1, 0, 1>>, <<1>>}
DryRunRpcErrorTexts == {<<"RPC call is ", "unsafe", " to be called externally">>,
                        <<"connection closed">>}
SubmitErrorTexts == {<<"1", "0", "1", "4">>, <<"bad signature">>,
                     <<"temporarily banned">>, <<"connection reset">>}
TxStatusChoices == {"Validated", "Broadcasted", "InBestBlock", "InFinalizedBlock",
                    "Error", "Invalid", "Dropped", "StreamError"}

\* the command lines explored: every combination of limits with --once, and
\* the automatic limits with every combination of the other flags
ConfigChoices ==
    {c \in [item_limit : LimitChoices, size_limit : LimitChoices,
            once : BOOLEAN, runs : RunsChoices, dry_run : BOOLEAN] :
        c.once \/ (c.item_limit = 0 /\ c.size_limit = 0)}

\* what system_dryRun can answer
DryRunReplies ==
    {[tag |-> "Success", data |-> <<>>], [tag |-> "Undecodable", data |-> <<>>]}
    \cup {[tag |-> "DispatchError", data |-> t] : t \in DispatchErrorTexts}
    \cup {[tag |-> "TransactionValidityError", data |-> b] : b \in ValidityByteChoices}
    \cup {[tag |-> "RpcError", data |-> t] : t \in DryRunRpcErrorTexts}

\* what create_signed followed by submit_and_watch can answer
SubmitReplies ==
    {[tag |-> "SignError", data |-> <<>>], [tag |-> "Accepted", data |-> <<>>]}
    \cup {[tag |-> "SubmitError", data |-> t] : t \in SubmitErrorTexts}

\* no function of utils.rs / error.rs has been applied yet
NoCall == [fn |-> "none", arg |-> <<>>, res |-> <<>>]

\* ------------------------------------------------------------- state
VARIABLES
    config,              \* Cli: item_limit, size_limit, once, runs, dry_run
    dry_run_supported,   \* MigrationBot::dry_run_supported
    pc,                  \* position of run() / submit_migration / wait_for_pending_tx
    run_result,          \* what run() returned, NoResult while it runs
    current_limits,      \* run(): current_limits
    successful_runs,     \* run(): successful_runs
    consecutive_errors,  \* run(): consecutive_errors
    witness_task,        \* run(): witness_task, until it is moved into the call
    balance_before,      \* run(): balance_before
    balance_after,       \* run(): balance_after
    sm_result,           \* what submit_migration returned to run()
    sm_exit,             \* history: the place submit_migration returned from
    expected_nonce,      \* submit_migration: expected_nonce
    retry,               \* submit_migration: retry
    dry_run_tx,          \* submit_migration: dry_run_tx.is_some()
    dry_runs,            \* history: system_dryRun calls of this submit_migration
    included,            \* submit_migration: included
    elapsed,             \* submit_migration: start_time.elapsed(), seconds
    initial_nonce,       \* wait_for_pending_tx: initial_nonce
    poll_i,              \* wait_for_pending_tx: i
    chain_nonce,         \* chain: system_accountNextIndex of the account
    tx_state,            \* chain: the last transmitted continue_migrate
    cm_sent,             \* history: submit_and_watch was called for a continue_migrate
    limits_sent,         \* history: set_signed_max_limits "no", "sent", "finalized"
    size_exceeded,       \* history: a dry-run reported SizeUpperBoundExceeded
    slept,               \* history: seconds run() slept after the last failure
    dry_run_outcome,     \* history: how the dry-run step of this submit_migration ended
    fn_call              \* the last application of a function of utils.rs / error.rs

cfgVars == <<config, dry_run_supported>>
loopVars == <<successful_runs, consecutive_errors>>
iterVars == <<witness_task, balance_before, balance_after, sm_result, sm_exit>>
smVars == <<expected_nonce, retry, dry_run_tx, dry_runs, included, elapsed>>
waitVars == <<initial_nonce, poll_i>>
chainVars == <<chain_nonce, tx_state>>
histVars == <<cm_sent, limits_sent, size_exceeded>>
vars == <<cfgVars, pc, run_result, current_limits, loopVars, iterVars, smVars,
          waitVars, chainVars, histVars, slept, dry_run_outcome, fn_call>>

\* MigrationBot::new followed by the start of run()
Init ==
    /\ config \in ConfigChoices
    /\ dry_run_supported = TRUE
    /\ pc = "get_max_limits"
    /\ run_result = NoResult
    /\ current_limits = NoLimits
    /\ successful_runs = 0
    /\ consecutive_errors = 0
    /\ witness_task = NoTask
    /\ balance_before = NoBalance
    /\ balance_after = NoBalance
    /\ sm_result = NoResult
    /\ sm_exit = "none"
    /\ expected_nonce = 0
    /\ retry = 0
    /\ dry_run_tx = FALSE
    /\ dry_runs = 0
    /\ included = FALSE
    /\ elapsed = 0
    /\ initial_nonce = 0
    /\ poll_i = 0
    /\ chain_nonce = 0
    /\ tx_state = "none"
    /\ cm_sent = FALSE
    /\ limits_sent = "no"
    /\ size_exceeded = FALSE
    /\ slept = 0
    /\ dry_run_outcome = "none"
    /\ fn_call = NoCall

AnyhowErr(text) == Err("Anyhow", text)
Running == pc \notin {"done", "aborted"}

\* run() returns Err(err)
Abort(err) ==
    /\ pc' = "aborted"
    /\ run_result' = err

\* variant: leaving the loop is reported with the reserved MigrationComplete error
Finish_AsError ==
    /\ pc' = "aborted"
    /\ run_result' = Err("MigrationComplete", <<>>)

\* run() leaves the loop: shutdown.cancel(); Ok(())
Finish ==
    /\ pc' = "done"
    /\ run_result' = OkResult

\* run() goes on at position p
Goto(p) ==
    /\ pc' = p
    /\ UNCHANGED run_result

\* ------------------------------------------------- Limits negotiation
\* variant: the whole ceiling is taken instead of its half
ResolveLimit_Whole(configured, max) == IF configured = 0 THEN max ELSE configured

\* Some((max_size, max_item)) arm: the limit run() goes on with
ResolveLimit(configured, max) == IF configured = 0 THEN max \div 2 ELSE configured

\* None arm: the limit run() goes on with
DefaultLimit(configured, default) == IF configured = 0 THEN default ELSE configured

\* the Some arm calls set_max_limits
NeedsLimitUpdate(item_limit, size_limit, max_size, max_item) ==
    item_limit > max_item \/ size_limit > max_size

\* run(): get_max_limits and the match on its result
RunGetMaxLimits(reply) ==
    /\ pc = "get_max_limits"
    /\ IF ~reply.ok
       THEN /\ Abort(AnyhowErr(<<"storage query failed">>))
            /\ UNCHANGED <<config, current_limits>>
       ELSE /\ current_limits' = reply.limits
            /\ IF reply.limits # NoLimits
               THEN LET max_size == reply.limits[1]
                        max_item == reply.limits[2]
                        item == ResolveLimit(config.item_limit, max_item)
                        size == ResolveLimit(config.size_limit, max_size)
                    IN /\ config' = [config EXCEPT !.item_limit = item, !.size_limit = size]
                       /\ Goto(IF NeedsLimitUpdate(item, size, max_size, max_item)
                               THEN "set_max_limits" ELSE "check_balance")
               ELSE /\ config' = [config EXCEPT
                            !.item_limit = DefaultLimit(config.item_limit, DefaultItemLimit),
                            !.size_limit = DefaultLimit(config.size_limit, DefaultSizeLimit)]
                    /\ Goto("set_max_limits")
    /\ UNCHANGED <<dry_run_supported, loopVars, iterVars, smVars, waitVars,
                   chainVars, histVars>>
    /\ UNCHANGED <<fn_call, slept, dry_run_outcome>>

\* set_max_limits: create_signed, submit_and_watch
SetMaxLimitsSubmit(reply) ==
    /\ pc = "set_max_limits"
    /\ CASE reply.tag = "SignError" ->
              /\ Abort(AnyhowErr(<<"Failed to create set_signed_max_limits tx">>))
              /\ UNCHANGED <<limits_sent, chain_nonce>>
         [] reply.tag = "SubmitError" ->
              /\ Abort(AnyhowErr(<<"Failed to submit set_signed_max_limits tx">>))
              /\ limits_sent' = "sent"
              /\ UNCHANGED chain_nonce
         [] OTHER ->
              /\ chain_nonce < MaxNonce
              /\ chain_nonce' = chain_nonce + 1
              /\ limits_sent' = "sent"
              /\ Goto("set_limits_watch")
    /\ UNCHANGED <<cfgVars, current_limits, loopVars, iterVars, smVars, waitVars,
                   tx_state, cm_sent, size_exceeded>>
    /\ UNCHANGED <<fn_call, slept, dry_run_outcome>>

\* set_max_limits: one item of the status stream
SetMaxLimitsStatus(ev) ==
    /\ pc = "set_limits_watch"
    /\ CASE ev = "StreamError" ->
              /\ Abort(AnyhowErr(<<"status stream error">>))
              /\ UNCHANGED <<limits_sent, current_limits>>
         [] ev = "InFinalizedBlock" ->
              /\ limits_sent' = "finalized"
              /\ current_limits' = NoLimits
              /\ Goto("check_balance")
         [] ev = "Error" ->
              /\ Abort(AnyhowErr(<<"set_signed_max_limits failed: ", "message">>))
              /\ UNCHANGED <<limits_sent, current_limits>>
         [] ev = "Dropped" ->
              /\ Abort(AnyhowErr(<<"set_signed_max_limits dropped: ", "message">>))
              /\ UNCHANGED <<limits_sent, current_limits>>
         [] OTHER ->
              UNCHANGED <<pc, run_result, limits_sent, current_limits>>
    /\ UNCHANGED <<cfgVars, loopVars, iterVars, smVars, waitVars, chainVars,
                   cm_sent, size_exceeded>>
    /\ UNCHANGED <<fn_call, slept, dry_run_outcome>>

\* set_max_limits: the status stream ends, the while-let falls through to Ok(())
SetMaxLimitsStreamEnd ==
    /\ pc = "set_limits_watch"
    /\ current_limits' = NoLimits
    /\ Goto("check_balance")
    /\ UNCHANGED <<cfgVars, loopVars, iterVars, smVars, waitVars, chainVars, histVars>>
    /\ UNCHANGED <<fn_call, slept, dry_run_outcome>>

\* variant: the zero balance is only warned about
ZeroBalanceAbort_WarnOnly(balance, dry_run) == FALSE

\* balance == 0 and !self.config.dry_run
ZeroBalanceAbort(balance, dry_run) == balance = 0 /\ ~dry_run

\* run(): the balance check before the loop
RunCheckBalance(balance) ==
    /\ pc = "check_balance"
    /\ IF balance = QueryError
       THEN Abort(AnyhowErr(<<"storage query failed">>))
       ELSE IF ZeroBalanceAbort(balance, config.dry_run)
       THEN Abort(Err("ZeroBalance", <<>>))
       ELSE Goto("loop_top")
    /\ current_limits' = NoLimits
    /\ UNCHANGED <<cfgVars, loopVars, iterVars, smVars, waitVars, chainVars, histVars>>
    /\ UNCHANGED <<fn_call, slept, dry_run_outcome>>

\* ------------------------------------------------------ Control loop
\* run(): top of the loop, get_migration_task and the completion test;
\* task = NoTask is Ok(None)
RunGetMigrationTask(query_ok, task) ==
    /\ pc = "loop_top"
    /\ IF ~query_ok
       THEN /\ Abort(AnyhowErr(<<"storage query failed">>))
            /\ UNCHANGED witness_task
       ELSE IF ~task.present
       THEN /\ IF config.once THEN Finish ELSE UNCHANGED <<pc, run_result>>
            /\ UNCHANGED witness_task
       ELSE IF is_complete(task)
       THEN /\ Finish
            /\ UNCHANGED witness_task
       ELSE /\ successful_runs < MaxSuccess
            /\ witness_task' = task
            /\ Goto("balance_before")
    /\ UNCHANGED <<cfgVars, current_limits, loopVars, balance_before, balance_after,
                   sm_result, sm_exit, smVars, waitVars, chainVars, histVars>>
    /\ UNCHANGED <<fn_call, slept, dry_run_outcome>>

\* run(): balance_before, then the call of submit_migration
RunBalanceBefore(balance) ==
    /\ pc = "balance_before"
    /\ IF balance = QueryError
       THEN /\ Abort(AnyhowErr(<<"storage query failed">>))
            /\ UNCHANGED balance_before
       ELSE /\ balance_before' = balance
            /\ Goto("sm_nonce")
    /\ UNCHANGED <<cfgVars, current_limits, loopVars, witness_task, balance_after,
                   sm_result, sm_exit, smVars, waitVars, chainVars, histVars>>
    /\ UNCHANGED <<fn_call, slept, dry_run_outcome>>

\* ------------------------------------------------ Submission pipeline
\* submit_migration returns res to run() from the place named by exit;
\* balance_before is read again only in the Ok arm
SmReturn(res, exit) ==
    /\ sm_result' = res
    /\ sm_exit' = exit
    /\ balance_before' = IF res.kind = "Ok" THEN balance_before ELSE NoBalance
    /\ Goto("outcome")
    /\ expected_nonce' = 0
    /\ retry' = 0
    /\ dry_run_tx' = FALSE
    /\ included' = FALSE
    /\ elapsed' = 0

\* variant: run() keeps a copy of the witness it passed on
MoveWitness_Kept(task) == task

\* self.submit_migration(witness_task): the value is moved into the operation
MoveWitness(task) == NoTask

\* get_account_nonce(..).await.unwrap_or(0)
NonceOrDefault(query_ok, nonce) == IF query_ok THEN nonce ELSE 0

\* submit_migration: expected_nonce is captured, the transaction is built
SmCaptureNonce(query_ok) ==
    /\ pc = "sm_nonce"
    /\ expected_nonce' = NonceOrDefault(query_ok, chain_nonce)
    /\ retry' = 0
    /\ dry_run_tx' = FALSE
    /\ dry_runs' = 0
    /\ witness_task' = MoveWitness(witness_task)
    /\ Goto("sm_sign")
    /\ UNCHANGED <<cfgVars, current_limits, loopVars, balance_before, balance_after,
                   sm_result, sm_exit, included, elapsed, waitVars, chainVars, histVars>>
    /\ UNCHANGED <<fn_call, slept, dry_run_outcome>>

\* variant: the dry-run is attempted whatever the flag says
DryRunEnabled_Always(supported) == TRUE

\* self.dry_run_supported.load(Ordering::Relaxed)
DryRunEnabled(supported) == supported

\* submit_migration: head of the retry loop, create_signed and the flag test
SmCreateSigned(sign_ok) ==
    /\ pc = "sm_sign"
    /\ IF retry >= MAX_DRY_RUN_RETRIES
       THEN /\ Goto("sm_send")
            /\ UNCHANGED <<balance_before, sm_result, sm_exit, smVars, dry_run_outcome>>
       ELSE IF ~sign_ok
       THEN /\ SmReturn(AnyhowErr(<<"Failed to create signed tx for dry run">>), "sign")
            /\ dry_runs' = 0
            /\ UNCHANGED dry_run_outcome
       ELSE IF DryRunEnabled(dry_run_supported)
       THEN /\ Goto("sm_dry_run")
            /\ UNCHANGED <<balance_before, sm_result, sm_exit, smVars, dry_run_outcome>>
       ELSE /\ dry_run_tx' = TRUE
            /\ dry_run_outcome' = "disabled"
            /\ Goto("sm_send")
            /\ UNCHANGED <<balance_before, sm_result, sm_exit, expected_nonce, retry,
                           dry_runs, included, elapsed>>
    /\ UNCHANGED <<cfgVars, current_limits, loopVars, witness_task,
                   balance_after, waitVars, chainVars, histVars>>
    /\ UNCHANGED <<fn_call, slept>>

\* variant: the third stale rejection is retried as well
StaleRetry_Unbounded(validity_error, r) ==
    validity_error.v = "Stale" /\ r < MAX_DRY_RUN_RETRIES

\* the stale-nonce race: re-sign and simulate again
StaleRetry(validity_error, r) ==
    validity_error.v = "Stale" /\ r < MAX_DRY_RUN_RETRIES - 1

\* the dispatch error carries the size-ceiling marker
IsSizeExceeded(err_str) == Contains(err_str, <<"SizeUpperBoundExceeded">>)

\* variant: no transport error is taken as the missing capability
IsDryRunUnavailable_Never(err_str) == FALSE

\* the transport error says the dry-run RPC is not available
IsDryRunUnavailable(err_str) == Contains(err_str, <<"unsafe">>)

\* history: what the match on the result of system_dryRun made of the reply
DryRunOutcome(reply) ==
    CASE reply.tag = "Success" -> "success"
      [] reply.tag = "Undecodable" -> "undecoded"
      [] reply.tag = "RpcError" /\ IsDryRunUnavailable(reply.data) -> "unavailable"
      [] OTHER -> "none"

\* submit_migration: system_dryRun and the match on its result
SmDryRun(reply) ==
    /\ pc = "sm_dry_run"
    /\ dry_runs' = dry_runs + 1
    /\ dry_run_outcome' = DryRunOutcome(reply)
    /\ CASE reply.tag = "Success" ->
              /\ dry_run_tx' = TRUE
              /\ Goto("sm_send")
              /\ UNCHANGED <<balance_before, sm_result, sm_exit, expected_nonce, retry,
                             included, elapsed, dry_run_supported, size_exceeded>>
         [] reply.tag = "DispatchError" ->
              /\ IF IsSizeExceeded(reply.data)
                 THEN /\ SmReturn(Err("SizeExceeded", <<>>), "dry_run")
                      /\ size_exceeded' = TRUE
                 ELSE /\ SmReturn(Err("DryRunDispatchError", reply.data), "dry_run")
                      /\ UNCHANGED size_exceeded
              /\ UNCHANGED dry_run_supported
         [] reply.tag = "TransactionValidityError" ->
              LET validity_error == decode_validity_error(reply.data) IN
              /\ IF StaleRetry(validity_error, retry)
                 THEN /\ retry' = retry + 1
                      /\ Goto("sm_sign")
                      /\ UNCHANGED <<balance_before, sm_result, sm_exit, expected_nonce,
                                     dry_run_tx, included, elapsed>>
                 ELSE SmReturn(from_validity_error(validity_error), "dry_run")
              /\ UNCHANGED <<dry_run_supported, size_exceeded>>
         [] reply.tag = "Undecodable" ->
              /\ dry_run_tx' = TRUE
              /\ Goto("sm_send")
              /\ UNCHANGED <<balance_before, sm_result, sm_exit, expected_nonce, retry,
                             included, elapsed, dry_run_supported, size_exceeded>>
         [] OTHER ->
              IF IsDryRunUnavailable(reply.data)
              THEN /\ dry_run_supported' = FALSE
                   /\ dry_run_tx' = TRUE
                   /\ Goto("sm_send")
                   /\ UNCHANGED <<balance_before, sm_result, sm_exit, expected_nonce,
                                  retry, included, elapsed, size_exceeded>>
              ELSE /\ SmReturn(Err("RpcError", reply.data), "dry_run")
                   /\ UNCHANGED <<dry_run_supported, size_exceeded>>
    /\ UNCHANGED <<config, current_limits, loopVars, witness_task,
                   balance_after, waitVars, chainVars, cm_sent, limits_sent>>
    /\ UNCHANGED <<fn_call, slept>>

\* variant: the --dry-run test is honoured only together with --once
DryRunOnly_OnceOnly(cfg) == cfg.dry_run /\ cfg.once

\* --dry-run: report success without transmitting
DryRunOnly(cfg) == cfg.dry_run

\* submit_migration: after the retry loop, the fresh signature and submit_and_watch
SmSubmit(reply) ==
    /\ pc = "sm_send"
    /\ dry_run_outcome' = "none"
    /\ IF ~dry_run_tx
       THEN /\ SmReturn(Err("DryRunDispatchError",
                            <<"Failed to create valid transaction after retries">>),
                        "dry_run")
            /\ dry_runs' = 0
            /\ UNCHANGED <<chainVars, cm_sent>>
       ELSE IF DryRunOnly(config)
       THEN /\ SmReturn(OkResult, "dry_run_only")
            /\ dry_runs' = 0
            /\ UNCHANGED <<chainVars, cm_sent>>
       ELSE CASE reply.tag = "SignError" ->
                   /\ SmReturn(AnyhowErr(<<"Failed to create fresh signed tx for submission">>),
                               "sign")
                   /\ dry_runs' = 0
                   /\ UNCHANGED <<chainVars, cm_sent>>
              [] reply.tag = "SubmitError" ->
                   /\ SmReturn(from_rpc_error(reply.data), "submit")
                   /\ cm_sent' = TRUE
                   /\ dry_runs' = 0
                   /\ UNCHANGED chainVars
              [] OTHER ->
                   /\ chain_nonce < MaxNonce
                   /\ chain_nonce' = chain_nonce + 1
                   /\ tx_state' = "pool"
                   /\ cm_sent' = TRUE
                   /\ included' = FALSE
                   /\ elapsed' = 0
                   /\ retry' = 0
                   /\ dry_run_tx' = FALSE
                   /\ dry_runs' = 0
                   /\ Goto("sm_watch")
                   /\ UNCHANGED <<balance_before, sm_result, sm_exit, expected_nonce>>
    /\ UNCHANGED <<cfgVars, current_limits, loopVars, witness_task,
                   balance_after, waitVars, limits_sent, size_exceeded>>
    /\ UNCHANGED <<fn_call, slept>>

NonceQueryFailed == AnyhowErr(<<"Failed to get account nonce via RPC">>)

\* start_time.elapsed() > finalization_timeout
TimedOut(secs) == secs > FinalizationTimeoutSecs

\* variant: the timeout is reported as success whatever the nonce says
TimeoutResult_Lenient(query_ok, current_nonce, expected) ==
    IF ~query_ok THEN NonceQueryFailed ELSE OkResult

\* the reconciliation inside the stream loop, once the timeout has passed
TimeoutResult(query_ok, current_nonce, expected) ==
    IF ~query_ok THEN NonceQueryFailed
    ELSE IF current_nonce > expected THEN OkResult
    ELSE Err("SubmissionFailed", <<"Finalization timeout - TX may be stuck">>)

\* variant: the advance is tested against the nonce after the next one
AfterStream_OffByOne(incl, query_ok, current_nonce, expected) ==
    IF incl
    THEN IF ~query_ok THEN NonceQueryFailed
         ELSE IF current_nonce > expected + 1 THEN OkResult
         ELSE Err("SubmissionFailed", <<"Stream ended - TX may be stuck">>)
    ELSE OkResult

\* the code after the stream loop, reached by the break and by the end of the stream
AfterStream(incl, query_ok, current_nonce, expected) ==
    IF incl
    THEN IF ~query_ok THEN NonceQueryFailed
         ELSE IF current_nonce > expected THEN OkResult
         ELSE OkResult
    ELSE OkResult

\* history: how the end of the stream was reconciled
StreamEndExit(incl, query_ok, current_nonce, expected) ==
    IF ~incl THEN "stream_end"
    ELSE IF ~query_ok THEN "stream_end_query_failed"
    ELSE IF current_nonce > expected THEN "stream_end_advanced"
    ELSE "stream_end_not_advanced"

\* the chain can have put this item on the stream
Deliverable(ev) ==
    /\ ev = "InFinalizedBlock" => tx_state = "finalized"
    /\ ev = "Dropped" => tx_state = "dropped"

\* submit_migration: one item of the status stream; query_ok and events_ok are
\* the outcomes of the nonce query and of fetch_events where the code makes them
SmStatus(ev, query_ok, events_ok) ==
    /\ pc = "sm_watch"
    /\ Deliverable(ev)
    /\ IF TimedOut(elapsed)
       THEN SmReturn(TimeoutResult(query_ok, chain_nonce, expected_nonce),
                     IF query_ok /\ chain_nonce > expected_nonce
                     THEN "timeout_advanced" ELSE "timeout")
       ELSE CASE ev = "StreamError" ->
                   SmReturn(AnyhowErr(<<"status stream error">>), "status")
              [] ev = "InBestBlock" ->
                   /\ included' = TRUE
                   /\ UNCHANGED <<pc, run_result, balance_before, sm_result, sm_exit,
                                  expected_nonce, retry, dry_run_tx, elapsed>>
              [] ev = "InFinalizedBlock" ->
                   IF ~events_ok
                   THEN SmReturn(AnyhowErr(<<"fetch_events failed">>), "status")
                   ELSE SmReturn(AfterStream(included, query_ok, chain_nonce, expected_nonce),
                                 "finalized")
              [] ev = "Error" ->
                   SmReturn(Err("SubmissionFailed", <<"stream error message">>), "status")
              [] ev = "Dropped" ->
                   SmReturn(Err("TxDropped", <<"stream dropped message">>), "status")
              [] OTHER ->
                   UNCHANGED <<pc, run_result, balance_before, sm_result, sm_exit,
                               expected_nonce, retry, dry_run_tx, included, elapsed>>
    /\ UNCHANGED <<cfgVars, current_limits, loopVars, witness_task,
                   balance_after, dry_runs, waitVars, chainVars, histVars>>
    /\ UNCHANGED <<fn_call, slept, dry_run_outcome>>

\* submit_migration: the status stream ends
SmStreamEnd(query_ok) ==
    /\ pc = "sm_watch"
    /\ SmReturn(AfterStream(included, query_ok, chain_nonce, expected_nonce),
                StreamEndExit(included, query_ok, chain_nonce, expected_nonce))
    /\ UNCHANGED <<cfgVars, current_limits, loopVars, witness_task,
                   balance_after, dry_runs, waitVars, chainVars, histVars>>
    /\ UNCHANGED <<fn_call, slept, dry_run_outcome>>

\* time passes while submit_migration awaits the next item of the stream
SmTick ==
    /\ pc = "sm_watch"
    /\ elapsed + TickSecs <= MaxElapsed
    /\ elapsed' = elapsed + TickSecs
    /\ UNCHANGED <<cfgVars, pc, run_result, current_limits, loopVars, iterVars,
                   expected_nonce, retry, dry_run_tx, dry_runs, included, waitVars,
                   chainVars, histVars>>
    /\ UNCHANGED <<fn_call, slept, dry_run_outcome>>

\* variant: a recoverable failure outside the pool-wait and ban cases is counted
Recovery_RetryCounted(err) ==
    IF err.kind # "Anyhow"
    THEN IF requires_pool_wait(err) THEN "pool_wait"
         ELSE IF err.kind = "TxBanned" THEN "banned"
         ELSE "count"
    ELSE "count"

\* variant: a failure that is no MigrationError is retried like a recoverable one
Recovery_UnknownRetried(err) ==
    IF err.kind # "Anyhow"
    THEN IF requires_pool_wait(err) THEN "pool_wait"
         ELSE IF err.kind = "TxBanned" THEN "banned"
         ELSE IF is_recoverable(err) THEN "retry"
         ELSE "count"
    ELSE "retry"

\* ------------------------------------------------- Outcome handling
\* the failure arm: which branch of run() takes the error
Recovery(err) ==
    IF err.kind # "Anyhow"
    THEN IF requires_pool_wait(err) THEN "pool_wait"
         ELSE IF err.kind = "TxBanned" THEN "banned"
         ELSE IF is_recoverable(err) THEN "retry"
         ELSE "count"
    ELSE "count"

\* err.to_string() / e.to_string() stored in TooManyErrors
LastErrorText(err) == IF err.kind # "Anyhow" THEN ErrorDisplay(err) ELSE err.detail

\* variant: the ceiling itself is still tolerated
TooMany_Strict(count) == count > MAX_CONSECUTIVE_ERRORS

\* consecutive_errors >= MAX_CONSECUTIVE_ERRORS
TooMany(count) == count >= MAX_CONSECUTIVE_ERRORS

\* variant: one submission more than the target is made
TargetReached_OneMore(target_runs, runs_done) ==
    target_runs > 0 /\ runs_done > target_runs

\* target_runs > 0 && successful_runs >= target_runs
TargetReached(target_runs, runs_done) == target_runs > 0 /\ runs_done >= target_runs

\* run(): the Ok(()) arm of the match on submit_migration
RunOutcomeOk(balance) ==
    /\ pc = "outcome"
    /\ sm_result.kind = "Ok"
    /\ successful_runs' = successful_runs + 1
    /\ dry_runs' = 0
    /\ IF balance = QueryError
       THEN /\ Abort(AnyhowErr(<<"storage query failed">>))
            /\ UNCHANGED balance_after
       ELSE /\ balance_after' = balance
            /\ LET lost_wnd == check_balance_decrease(balance_before, balance) IN
               IF lost_wnd # NoLoss
               THEN Abort(Err("BalanceDecreased", lost_wnd))
               ELSE IF TargetReached(config.runs, successful_runs')
               THEN Finish
               ELSE Goto("loop_end")
    /\ UNCHANGED <<cfgVars, current_limits, consecutive_errors, witness_task,
                   balance_before, sm_result, sm_exit, expected_nonce, retry,
                   dry_run_tx, included, elapsed, waitVars, chainVars, histVars>>
    /\ UNCHANGED <<fn_call, slept, dry_run_outcome>>

\* the error value goes out of scope when run() goes on
ErrorHandled ==
    /\ sm_result' = NoResult
    /\ sm_exit' = "none"

\* run(): the Err(e) arm of the match on submit_migration
RunOutcomeErr ==
    /\ pc = "outcome"
    /\ sm_result.kind # "Ok"
    /\ dry_runs' = 0
    /\ LET branch == Recovery(sm_result) IN
       CASE branch = "pool_wait" ->
              /\ consecutive_errors' = 0
              /\ slept' = 0
              /\ Goto("wait_initial")
              /\ ErrorHandled
         [] branch = "banned" ->
              /\ consecutive_errors' = 0
              /\ slept' = BANNED_TX_WAIT_SECS
              /\ Goto("loop_end")
              /\ ErrorHandled
         [] branch = "retry" ->
              /\ slept' = RETRY_WAIT_SECS
              /\ Goto("loop_end")
              /\ ErrorHandled
              /\ UNCHANGED consecutive_errors
         [] OTHER ->
              /\ consecutive_errors' = consecutive_errors + 1
              /\ IF TooMany(consecutive_errors')
                 THEN /\ Abort(Err("TooManyErrors",
                                   [count |-> consecutive_errors',
                                    last_error |-> LastErrorText(sm_result)]))
                      /\ slept' = 0
                      /\ UNCHANGED <<sm_result, sm_exit>>
                 ELSE /\ slept' = RETRY_WAIT_SECS
                      /\ Goto("loop_end")
                      /\ ErrorHandled
    /\ UNCHANGED <<cfgVars, current_limits, successful_runs, witness_task,
                   balance_before, balance_after, expected_nonce, retry, dry_run_tx,
                   included, elapsed, waitVars, chainVars, histVars>>
    /\ UNCHANGED <<fn_call, dry_run_outcome>>

\* ------------------------------------------------ wait_for_pending_tx
\* variant: a failed query counts as a changed nonce
NonceChanged_OrFailed(query_ok, new_nonce, initial) ==
    ~query_ok \/ new_nonce # initial

\* Ok(new_nonce) if new_nonce != initial_nonce
NonceChanged(query_ok, new_nonce, initial) ==
    query_ok /\ new_nonce # initial

\* wait_for_pending_tx: the initial nonce query
WaitInitialNonce(query_ok) ==
    /\ pc = "wait_initial"
    /\ IF ~query_ok
       THEN /\ Goto("loop_end")
            /\ slept' = NONCE_RETRY_WAIT_SECS
            /\ UNCHANGED waitVars
       ELSE /\ initial_nonce' = chain_nonce
            /\ poll_i' = 0
            /\ Goto("wait_poll")
            /\ UNCHANGED slept
    /\ UNCHANGED <<cfgVars, current_limits, loopVars, iterVars, smVars, chainVars,
                   histVars>>
    /\ UNCHANGED <<fn_call, dry_run_outcome>>

\* wait_for_pending_tx: one round of the polling loop, the sleep and the query
WaitPoll(query_ok) ==
    /\ pc = "wait_poll"
    /\ poll_i < PENDING_TX_TIMEOUT_ITERATIONS
    /\ slept' = slept + BLOCK_TIME_SECS
    /\ IF NonceChanged(query_ok, chain_nonce, initial_nonce)
       THEN /\ Goto("loop_end")
            /\ initial_nonce' = 0
            /\ poll_i' = 0
       ELSE IF poll_i + 1 < PENDING_TX_TIMEOUT_ITERATIONS
       THEN /\ poll_i' = poll_i + 1
            /\ UNCHANGED <<pc, run_result, initial_nonce>>
       ELSE /\ Goto("loop_end")
            /\ initial_nonce' = 0
            /\ poll_i' = 0
    /\ UNCHANGED <<cfgVars, current_limits, loopVars, iterVars, smVars, chainVars,
                   histVars>>
    /\ UNCHANGED <<fn_call, dry_run_outcome>>

\* variant: the --once test at the end of the iteration is missing
OnceExit_Missing(cfg) == FALSE

\* if self.config.once { break; }
OnceExit(cfg) == cfg.once

\* run(): the end of an iteration, the --once test and the delay
RunLoopEnd ==
    /\ pc = "loop_end"
    /\ IF OnceExit(config)
       THEN /\ Finish
            /\ UNCHANGED iterVars
       ELSE /\ Goto("loop_top")
            /\ witness_task' = NoTask
            /\ balance_before' = NoBalance
            /\ balance_after' = NoBalance
            /\ sm_result' = NoResult
            /\ sm_exit' = "none"
    /\ slept' = 0
    /\ UNCHANGED <<cfgVars, current_limits, loopVars, smVars, waitVars, chainVars,
                   histVars>>
    /\ UNCHANGED <<fn_call, dry_run_outcome>>

\* ------------------------------------------------------------- chain
\* the transmitted continue_migrate is finalized
ChainTxFinalize ==
    /\ Running
    /\ tx_state = "pool"
    /\ tx_state' = "finalized"
    /\ UNCHANGED <<cfgVars, pc, run_result, current_limits, loopVars, iterVars,
                   smVars, waitVars, chain_nonce, histVars>>
    /\ UNCHANGED <<fn_call, slept, dry_run_outcome>>

\* the transmitted continue_migrate leaves the pool without being applied
ChainTxDrop ==
    /\ Running
    /\ tx_state = "pool"
    /\ tx_state' = "dropped"
    /\ chain_nonce' = chain_nonce - 1
    /\ UNCHANGED <<cfgVars, pc, run_result, current_limits, loopVars, iterVars,
                   smVars, waitVars, histVars>>
    /\ UNCHANGED <<fn_call, slept, dry_run_outcome>>

\* another transaction of the same account enters the pool
ChainOtherTx ==
    /\ Running
    /\ chain_nonce < MaxNonce
    /\ chain_nonce' = chain_nonce + 1
    /\ UNCHANGED <<cfgVars, pc, run_result, current_limits, loopVars, iterVars,
                   smVars, waitVars, tx_state, histVars>>
    /\ UNCHANGED <<fn_call, slept, dry_run_outcome>>

\* ------------------------------------------------------ specification
BalanceReplies == Balances \cup {QueryError}

ProgramStep ==
    \/ \E reply \in LimitsReplies : RunGetMaxLimits(reply)
    \/ \E reply \in SubmitReplies : SetMaxLimitsSubmit(reply)
    \/ \E balance \in BalanceReplies : RunCheckBalance(balance)
    \/ \E query_ok \in BOOLEAN, task \in TaskChoices \cup {NoTask} :
         RunGetMigrationTask(query_ok, task)
    \/ \E balance \in BalanceReplies : RunBalanceBefore(balance)
    \/ \E query_ok \in BOOLEAN : SmCaptureNonce(query_ok)
    \/ \E sign_ok \in BOOLEAN : SmCreateSigned(sign_ok)
    \/ \E reply \in DryRunReplies : SmDryRun(reply)
    \/ \E reply \in SubmitReplies : SmSubmit(reply)
    \/ \E balance \in BalanceReplies : RunOutcomeOk(balance)
    \/ RunOutcomeErr
    \/ \E query_ok \in BOOLEAN : WaitInitialNonce(query_ok)
    \/ \E query_ok \in BOOLEAN : WaitPoll(query_ok)
    \/ RunLoopEnd

StreamStep ==
    \/ \E ev \in TxStatusChoices : SetMaxLimitsStatus(ev)
    \/ SetMaxLimitsStreamEnd
    \/ \E ev \in TxStatusChoices, query_ok \in BOOLEAN, events_ok \in BOOLEAN :
         SmStatus(ev, query_ok, events_ok)
    \/ \E query_ok \in BOOLEAN : SmStreamEnd(query_ok)

ChainStep ==
    \/ ChainTxFinalize
    \/ ChainTxDrop
    \/ ChainOtherTx

Next == ProgramStep \/ StreamStep \/ SmTick \/ ChainStep

Spec == Init /\ [][Next]_vars

\* RPC calls return and time passes; the status stream owes no further item
FairSpec == Spec /\ WF_vars(ProgramStep) /\ WF_vars(SmTick)


\* ------------------------------------------- functions applied on their own
MaxBytesLen == 3
MaxTextLen == 4
MaxUnits == 3
MaxCounter == 1

SeqsUpTo(S, n) == UNION {[1..k -> S] : k \in 0..n}

\* raw dry-run result bytes
ByteChoices == {0, 1, 2, 3, 4, 5, 6, 7, 8, 9, 10, 11, 255}
RawBytesChoices == SeqsUpTo(ByteChoices, MaxBytesLen)

\* failure texts of the RPC layer
TextSymbols == {"0", "1", "2", "4", "Priority is too low", "bad signature",
                "temporarily banned", "x"}
ErrStrChoices == SeqsUpTo(TextSymbols, MaxTextLen)

\* MigrationStatus values
StatusChoices ==
    [top_complete : BOOLEAN, child_complete : BOOLEAN, size : 0..MaxCounter,
     top_items : 0..MaxCounter, child_items : 0..MaxCounter]

\* one value of every MigrationError variant
ErrorChoices ==
    {Err(k, <<>>) : k \in {"PoolConflict", "NonceStale", "NonceFuture", "TxBanned",
                           "SizeExceeded", "ZeroBalance", "MigrationComplete",
                           "NoMigrationProgress"}}
    \cup {Err(k, <<"x">>) : k \in {"DryRunDispatchError", "ConnectionFailed", "RpcError",
                                   "SubmissionFailed", "TxDropped", "InvalidSeed"}}
    \cup {Err("ValidityError", VE(v)) : v \in {"Payment", "BadProof"}}
    \cup {Err("BalanceDecreased", units_to_wnd(u)) : u \in 1..MaxUnits}
    \cup {Err("TooManyErrors", [count |-> MAX_CONSECUTIVE_ERRORS, last_error |-> <<"x">>]),
          AnyhowErr(<<"x">>)}

progVars == <<cfgVars, pc, run_result, current_limits, loopVars, iterVars, smVars,
              waitVars, chainVars, histVars, slept, dry_run_outcome>>

Call(fn, arg, res) == [fn |-> fn, arg |-> arg, res |-> res]

ApplyIsComplete(status) ==
    /\ fn_call.fn = "none"
    /\ fn_call' = Call("is_complete", status, is_complete(status))
    /\ UNCHANGED progVars

ApplyCheckBalanceDecrease(before, after) ==
    /\ fn_call.fn = "none"
    /\ fn_call' = Call("check_balance_decrease", <<before, after>>,
                       check_balance_decrease(before, after))
    /\ UNCHANGED progVars

ApplyDecodeValidityError(raw_bytes) ==
    /\ fn_call.fn = "none"
    /\ fn_call' = Call("decode_validity_error", raw_bytes, decode_validity_error(raw_bytes))
    /\ UNCHANGED progVars

ApplyFromRpcError(err_str) ==
    /\ fn_call.fn = "none"
    /\ fn_call' = Call("from_rpc_error", err_str, from_rpc_error(err_str))
    /\ UNCHANGED progVars

ApplyClassify(err) ==
    /\ fn_call.fn = "none"
    /\ fn_call' = Call("classify", err,
                       [recoverable |-> is_recoverable(err),
                        pool_wait |-> requires_pool_wait(err)])
    /\ UNCHANGED progVars

FnInit ==
    /\ Init
    /\ config = [item_limit |-> 0, size_limit |-> 0, once |-> FALSE, runs |-> 0,
                 dry_run |-> FALSE]

FnNext ==
    \/ \E status \in StatusChoices : ApplyIsComplete(status)
    \/ \E before \in 0..MaxUnits, after \in 0..MaxUnits :
         ApplyCheckBalanceDecrease(before, after)
    \/ \E raw_bytes \in RawBytesChoices : ApplyDecodeValidityError(raw_bytes)
    \/ \E err_str \in ErrStrChoices : ApplyFromRpcError(err_str)
    \/ \E err \in ErrorChoices : ApplyClassify(err)

FnSpec == FnInit /\ [][FnNext]_vars

\* ------------------------------------------------------------ claims

\* C1: whenever submit_migration reported success and the balance read after
\* it is lower than the balance read before it in the same iteration, run()
\* has aborted with BalanceDecreased; the run never goes on from such a state,
\* whatever --runs says.
C1_BalanceLossAborts ==
    (balance_after # NoBalance /\ balance_after < balance_before) =>
        (pc = "aborted" /\ run_result.kind = "BalanceDecreased")

C1_Witness ==
    /\ pc = "aborted"
    /\ run_result.kind = "BalanceDecreased"
    /\ balance_after < balance_before
    /\ config.runs = 2
    /\ successful_runs = 1

\* C2: after every successful submission that passed the balance check the
\* consecutive-error counter is zero.
C2_CounterZeroAfterSuccess ==
    (pc \in {"loop_end", "done"} /\ balance_after # NoBalance
        /\ balance_after >= balance_before)
    => consecutive_errors = 0

\* the failures run() counts: every kind that is neither recoverable nor a pool wait
C3_Counted(err) ==
    err.kind \notin {"Ok", "None", "PoolConflict", "NonceStale", "NonceFuture",
                     "TxBanned", "RpcError"}

C3_Text(err) == IF err.kind = "Anyhow" THEN err.detail ELSE ErrorDisplay(err)

\* C3: every non-recoverable failure adds exactly one to the counter and nothing
\* else changes it between attempts; the failure that brings it to 5 aborts
\* run() with TooManyErrors carrying count = 5 and the text of that failure,
\* every earlier one lets the run go on to the wait and the next attempt.
C3_FiveFailuresAbort ==
    [][ /\ (pc = "outcome" /\ C3_Counted(sm_result) /\ pc' # pc) =>
             /\ consecutive_errors' = consecutive_errors + 1
             /\ consecutive_errors' <= MAX_CONSECUTIVE_ERRORS
             /\ (consecutive_errors' < MAX_CONSECUTIVE_ERRORS =>
                    pc' = "loop_end" /\ run_result'.kind = "None")
             /\ (consecutive_errors' = MAX_CONSECUTIVE_ERRORS =>
                    /\ pc' = "aborted"
                    /\ run_result'.kind = "TooManyErrors"
                    /\ run_result'.detail.count = 5
                    /\ run_result'.detail.last_error = C3_Text(sm_result))
        /\ (pc # "outcome" => consecutive_errors' = consecutive_errors)
      ]_vars

C3_Witness ==
    /\ pc = "aborted"
    /\ run_result.kind = "TooManyErrors"
    /\ run_result.detail.count = 5
    /\ successful_runs = 0
    /\ C3_Counted(sm_result)

\* C4: when the status stream times out or ends without a terminal event and
\* the account nonce has not advanced past expected_nonce, submit_migration
\* fails with SubmissionFailed and never reports success.
C4_NoSuccessWithoutAdvance ==
    [][ (/\ pc = "sm_watch"
         /\ chain_nonce <= expected_nonce
         /\ \/ SmStreamEnd(TRUE)
            \/ (TimedOut(elapsed) /\ \E ev \in TxStatusChoices : SmStatus(ev, TRUE, TRUE)))
        => sm_result'.kind = "SubmissionFailed"
      ]_vars

\* C5: when the stream has delivered InBestBlock and then ends, and the nonce
\* query answers a value greater than expected_nonce, submit_migration
\* returns Ok.
C5_IncludedThenEndIsSuccess ==
    [][ (pc = "sm_watch" /\ included /\ chain_nonce > expected_nonce
            /\ SmStreamEnd(TRUE))
        => (pc' = "outcome" /\ sm_result'.kind = "Ok")
      ]_vars

C5_Witness ==
    /\ pc = "outcome"
    /\ sm_exit = "stream_end_advanced"
    /\ sm_result.kind = "Ok"

\* C6: the finalization wait of submit_migration always terminates, also when
\* the status stream delivers nothing.
C6_WaitTerminates == (pc = "sm_watch") ~> (pc # "sm_watch")

\* the error kind a validity rejection is reported as
C7_Mapped(ve) ==
    CASE ve.v = "Stale" -> "NonceStale"
      [] ve.v = "Future" -> "NonceFuture"
      [] ve.v = "Priority" -> "PoolConflict"
      [] OTHER -> "ValidityError"

\* C7: one call of submit_migration runs the dry-run at most 3 times; it goes
\* back for another attempt only after a rejection that decodes to Stale while
\* fewer than 3 attempts were made; every other validity rejection, and a
\* Stale one on the third attempt, ends the call with the mapped error kind
\* and without a transmission.
C7_DryRunRetryBounded ==
    [][ \A reply \in DryRunReplies :
          SmDryRun(reply) =>
            LET rejected == reply.tag = "TransactionValidityError"
                ve == decode_validity_error(reply.data)
            IN /\ dry_runs' <= MAX_DRY_RUN_RETRIES
               /\ (pc' = "sm_sign" =>
                      rejected /\ ve.v = "Stale" /\ dry_runs' < MAX_DRY_RUN_RETRIES)
               /\ ((rejected /\ ~(ve.v = "Stale" /\ dry_runs' < MAX_DRY_RUN_RETRIES)) =>
                      /\ pc' = "outcome"
                      /\ sm_result'.kind = C7_Mapped(ve)
                      /\ cm_sent' = cm_sent
                      /\ chain_nonce' = chain_nonce
                      /\ tx_state' = tx_state)
      ]_vars

C7_Witness ==
    /\ pc = "outcome"
    /\ sm_exit = "dry_run"
    /\ sm_result.kind = "NonceStale"
    /\ dry_runs = 3

\* C8: once a dry-run has reported SizeUpperBoundExceeded, no continue_migrate
\* with the same limits is transmitted for the rest of the run.
C8_NoTransmitAfterSizeExceeded ==
    [][ size_exceeded =>
          ~(pc = "sm_send" /\ pc' = "sm_watch" /\ tx_state' = "pool"
              /\ config' = config)
      ]_vars

\* C9: with --dry-run, submit_migration never calls submit_and_watch: no
\* continue_migrate is transmitted.
C9_DryRunNeverTransmits ==
    config.dry_run => (~cm_sent /\ tx_state = "none")

C9_Witness ==
    /\ config.dry_run
    /\ pc = "outcome"
    /\ sm_exit = "dry_run_only"
    /\ sm_result.kind = "Ok"

\* C10: with --dry-run, no transaction of any kind is submitted during the
\* whole run, the limits negotiation included.
C10_DryRunSubmitsNothing ==
    config.dry_run => (~cm_sent /\ limits_sent = "no")

\* C11: submissions are strictly sequential: no continue_migrate is handed to
\* submit_and_watch while the one transmitted by an earlier attempt is still
\* in the pool, neither finalized nor dropped.
C11_StrictlySequential ==
    [][ (pc = "sm_send" /\ (pc' = "sm_watch" \/ sm_exit' = "submit"))
        => tx_state # "pool"
      ]_vars

\* C12: dry_run_supported starts true, never goes back from false to true,
\* and the store(false) is executed only while the flag is still true, so it
\* is written at most once.
C12_FlagMonotone ==
    /\ dry_run_supported = TRUE
    /\ [][ /\ (dry_run_supported' => dry_run_supported)
           /\ \A reply \in DryRunReplies :
                (SmDryRun(reply) /\ reply.tag = "RpcError"
                    /\ IsDryRunUnavailable(reply.data))
                => (dry_run_supported /\ ~dry_run_supported')
         ]_vars

C12_Witness ==
    /\ ~dry_run_supported
    /\ pc = "sm_send"
    /\ dry_run_tx
    /\ dry_runs = 0

\* C13: is_complete answers true exactly when top_complete and child_complete
\* are both true, whatever size, top_items and child_items are.
C13_IsCompleteIffBoth ==
    fn_call.fn = "is_complete" =>
        (fn_call.res <=> (fn_call.arg.top_complete /\ fn_call.arg.child_complete))

C13_Witness ==
    /\ fn_call.fn = "is_complete"
    /\ fn_call.arg.top_complete
    /\ ~fn_call.arg.child_complete
    /\ fn_call.arg.size = 1
    /\ fn_call.res = FALSE

\* C14: check_balance_decrease answers nothing when after >= before, and the
\* non-negative amount before - after in WND (12 decimals) when after < before.
C14_BalanceDecreaseAmount ==
    fn_call.fn = "check_balance_decrease" =>
        LET before == fn_call.arg[1]
            after == fn_call.arg[2]
        IN /\ (after >= before => fn_call.res = NoLoss)
           /\ (after < before =>
                 /\ fn_call.res # NoLoss
                 /\ fn_call.res.units = before - after
                 /\ fn_call.res.units >= 0
                 /\ fn_call.res.decimals = 12)

C14_Witness ==
    /\ fn_call.fn = "check_balance_decrease"
    /\ fn_call.arg[2] < fn_call.arg[1]
    /\ fn_call.res.units = 2

\* the variants of ValidityError
C15_Variants ==
    {"Stale", "Future", "Priority", "Payment", "BadProof", "AncientBirthBlock",
     "ExhaustsResources", "Other"}

\* the bytes after the Result::Err marker
C15_Payload(bytes) ==
    IF bytes # <<>> /\ bytes[1] = 1 THEN SubSeq(bytes, 2, Len(bytes)) ELSE bytes

\* C15: decode_validity_error answers one ValidityError variant for every byte
\* sequence; a sequence that ends before the family or the sub-reason byte, or
\* whose family or sub-reason code is not a known one, decodes to Other.
C15_DecodeTotal ==
    fn_call.fn = "decode_validity_error" =>
        LET payload == C15_Payload(fn_call.arg)
            truncated == Len(payload) < 2
            unrecognized ==
                /\ Len(payload) >= 2
                /\ \/ payload[1] \notin {0, 1}
                   \/ (payload[1] = 0 /\ payload[2] \notin 0..10)
                   \/ (payload[1] = 1 /\ payload[2] \notin 0..2)
        IN /\ fn_call.res.v \in C15_Variants
           /\ ((truncated \/ unrecognized) => fn_call.res.v = "Other")

C15_Witness ==
    /\ fn_call.fn = "decode_validity_error"
    /\ fn_call.arg = <<1, 0>>
    /\ fn_call.res.v = "Other"

\* the variant an InvalidTransaction sub-reason decodes to
C16_Invalid(s) ==
    CASE s = 1 -> "Payment"
      [] s = 2 -> "Future"
      [] s = 3 -> "Stale"
      [] s \in {4, 10} -> "BadProof"
      [] s = 5 -> "AncientBirthBlock"
      [] s = 6 -> "ExhaustsResources"
      [] OTHER -> "Other"

\* C16: for [1, 0, s, ...] decode_validity_error answers Payment, Future,
\* Stale, BadProof (s = 4 and s = 10), AncientBirthBlock, ExhaustsResources
\* for s = 1..6 and Other for every other s; for [1, 1, s, ...] it answers Other.
C16_SubReasonTable ==
    (fn_call.fn = "decode_validity_error" /\ Len(fn_call.arg) >= 3
        /\ fn_call.arg[1] = 1) =>
        /\ (fn_call.arg[2] = 0 => fn_call.res.v = C16_Invalid(fn_call.arg[3]))
        /\ (fn_call.arg[2] = 1 => fn_call.res.v = "Other")

C16_Witness ==
    /\ fn_call.fn = "decode_validity_error"
    /\ fn_call.arg = <<1, 0, 10>>
    /\ fn_call.res.v = "BadProof"

\* the text holds the marker as a contiguous run
C17_Has(text, marker) ==
    \E i \in 1..(Len(text) - Len(marker) + 1) :
        SubSeq(text, i, i + Len(marker) - 1) = marker

C17_Kind(text) ==
    IF C17_Has(text, <<"1", "0", "1", "4">>) \/ C17_Has(text, <<"Priority is too low">>)
    THEN "PoolConflict"
    ELSE IF C17_Has(text, <<"1", "0", "1", "0">>) \/ C17_Has(text, <<"bad signature">>)
    THEN "NonceStale"
    ELSE IF C17_Has(text, <<"1", "0", "1", "2">>) \/ C17_Has(text, <<"temporarily banned">>)
    THEN "TxBanned"
    ELSE "SubmissionFailed"

\* C17: from_rpc_error answers PoolConflict for a text holding 1014 or
\* "Priority is too low", else NonceStale for 1010 or "bad signature", else
\* TxBanned for 1012 or "temporarily banned", else SubmissionFailed carrying
\* the text; a second classification of the text gives the same kind.
C17_RpcErrorClasses ==
    fn_call.fn = "from_rpc_error" =>
        /\ fn_call.res.kind = C17_Kind(fn_call.arg)
        /\ (fn_call.res.kind = "SubmissionFailed" => fn_call.res.detail = fn_call.arg)
        /\ from_rpc_error(fn_call.arg).kind = fn_call.res.kind

C17_Witness ==
    /\ fn_call.fn = "from_rpc_error"
    /\ fn_call.arg = <<"bad signature", "Priority is too low">>
    /\ fn_call.res.kind = "PoolConflict"

\* C18: is_recoverable holds for PoolConflict, NonceStale, NonceFuture and
\* TxBanned and not for BalanceDecreased, ZeroBalance, SizeExceeded;
\* requires_pool_wait holds exactly for PoolConflict and NonceStale, and
\* implies is_recoverable.
C18_Recoverability ==
    fn_call.fn = "classify" =>
        LET k == fn_call.arg.kind IN
        /\ (k \in {"PoolConflict", "NonceStale", "NonceFuture", "TxBanned"}
               => fn_call.res.recoverable)
        /\ (k \in {"BalanceDecreased", "ZeroBalance", "SizeExceeded"}
               => ~fn_call.res.recoverable)
        /\ (fn_call.res.pool_wait <=> k \in {"PoolConflict", "NonceStale"})
        /\ (fn_call.res.pool_wait => fn_call.res.recoverable)

C18_Witness ==
    /\ fn_call.fn = "classify"
    /\ fn_call.arg.kind = "TxBanned"
    /\ fn_call.res.recoverable
    /\ ~fn_call.res.pool_wait

\* C19: an iteration whose get_migration_task fails or answers nothing neither
\* aborts run() nor submits; without --once the loop goes on to its next
\* iteration.
C19_UnavailableIsTransient ==
    [][ \A query_ok \in BOOLEAN, task \in TaskChoices \cup {NoTask} :
          (RunGetMigrationTask(query_ok, task) /\ (~query_ok \/ ~task.present))
          => /\ pc' # "aborted"
             /\ cm_sent' = cm_sent
             /\ (~config.once => pc' = "loop_top")
      ]_vars

\* C20: an iteration that fetches a status with top_complete and
\* child_complete both true ends run() with Ok, without reading the balance
\* and without starting a submission.
C20_CompleteEndsRun ==
    [][ \A task \in TaskChoices :
          (RunGetMigrationTask(TRUE, task) /\ task.top_complete /\ task.child_complete)
          => /\ pc' = "done"
             /\ run_result'.kind = "Ok"
             /\ balance_before' = balance_before
             /\ cm_sent' = cm_sent
             /\ tx_state' = tx_state
             /\ chain_nonce' = chain_nonce
      ]_vars

C20_Witness ==
    /\ pc = "done"
    /\ run_result.kind = "Ok"
    /\ ~config.once
    /\ config.runs = 0
    /\ successful_runs = 1

\* max \div 2 stated without the division
C21_IsHalf(r, max) == 2 * r <= max /\ max < 2 * r + 2

C22_LimitsFinalizedFirst ==
    [][ /\ \A reply \in LimitsReplies :
             (RunGetMaxLimits(reply) /\ reply.ok /\ reply.limits # NoLimits
                 /\ (config'.item_limit > reply.limits[2]
                        \/ config'.size_limit > reply.limits[1]))
             => pc' = "set_max_limits"
        /\ (pc = "set_limits_watch" /\ current_limits # NoLimits /\ pc' # pc)
             => (pc' = "aborted" \/ limits_sent' = "finalized")
      ]_vars

\* C23: when the chain has no ceilings, a limit left at zero becomes 4096
\* items / 409600 bytes, set_max_limits is called with the result, and run()
\* goes on to the loop only after the ceilings are finalized on the chain.
C23_DefaultsEstablished ==
    [][ /\ \A reply \in LimitsReplies :
             (RunGetMaxLimits(reply) /\ reply.ok /\ reply.limits = NoLimits) =>
               /\ config'.item_limit = IF config.item_limit = 0 THEN 4096
                                       ELSE config.item_limit
               /\ config'.size_limit = IF config.size_limit = 0 THEN 409600
                                       ELSE config.size_limit
               /\ pc' = "set_max_limits"
        /\ (pc = "set_limits_watch" /\ current_limits = NoLimits /\ pc' # pc)
             => (pc' = "aborted" \/ limits_sent' = "finalized")
      ]_vars

\* C24: a startup balance of zero without --dry-run aborts run() with
\* ZeroBalance before the loop; no continue_migrate attempt has been or will
\* be made.
C24_ZeroBalanceAborts ==
    [][ (RunCheckBalance(0) /\ ~config.dry_run) =>
          /\ pc' = "aborted"
          /\ run_result'.kind = "ZeroBalance"
          /\ successful_runs' = 0
          /\ ~cm_sent'
          /\ tx_state' = "none"
      ]_vars

C24_Witness ==
    /\ pc = "aborted"
    /\ run_result.kind = "ZeroBalance"
    /\ ~config.dry_run
    /\ ~cm_sent

\* C25 (as claimed): with --runs N > 0, successful_runs never exceeds N and
\* the loop ends normally in the iteration in which it reaches N.
C25_EndsNormallyAtTarget ==
    config.runs > 0 =>
        /\ successful_runs <= config.runs
        /\ (successful_runs = config.runs =>
              (pc = "done" /\ run_result.kind = "Ok"))

\* C25 (amended): with --runs N > 0, successful_runs never exceeds N and
\* run() ends in the iteration in which it reaches N: with Ok when the balance
\* read after the submission shows no loss, with BalanceDecreased when it
\* shows a loss, with the query's error when the balance cannot be read.
C25_EndsAtTarget ==
    config.runs > 0 =>
        /\ successful_runs <= config.runs
        /\ (successful_runs = config.runs =>
              IF balance_after = NoBalance
              THEN pc = "aborted" /\ run_result.kind = "Anyhow"
              ELSE IF balance_after < balance_before
              THEN pc = "aborted" /\ run_result.kind = "BalanceDecreased"
              ELSE pc = "done" /\ run_result.kind = "Ok")

C25_Witness ==
    /\ config.runs = 2
    /\ successful_runs = 2
    /\ pc = "done"
    /\ run_result.kind = "Ok"

\* C26: with --once the loop is entered once and every pass through its top
\* leaves it: no second iteration, so at most one submission attempt.
C26_OnceSingleIteration ==
    [][ config.once =>
          /\ ((pc # "loop_top" /\ pc' = "loop_top") => pc = "check_balance")
          /\ \A query_ok \in BOOLEAN, task \in TaskChoices \cup {NoTask} :
               RunGetMigrationTask(query_ok, task) => pc' # "loop_top"
          /\ ((pc # "sm_nonce" /\ pc' = "sm_nonce") => (~cm_sent /\ successful_runs = 0))
      ]_vars

C26_Witness ==
    /\ config.once
    /\ pc = "done"
    /\ consecutive_errors = 1
    /\ successful_runs = 0

\* C27: after a failure of kind PoolConflict, NonceStale, TxBanned,
\* NonceFuture or RpcError the consecutive-error counter is zero when the
\* next iteration starts.
C27_RecoverableResetsCounter ==
    [][ (pc = "outcome" /\ pc' # pc
            /\ sm_result.kind \in {"PoolConflict", "NonceStale", "TxBanned",
                                   "NonceFuture", "RpcError"})
        => consecutive_errors' = 0
      ]_vars

\* C28: a NonceFuture or RpcError failure leaves the consecutive-error
\* counter as it is and does not end run(): the loop sleeps RETRY_WAIT_SECS
\* (12 s) and goes on.
C28_RetryNotCounted ==
    [][ (pc = "outcome" /\ pc' # pc /\ sm_result.kind \in {"NonceFuture", "RpcError"})
        => /\ consecutive_errors' = consecutive_errors
           /\ pc' = "loop_end"
           /\ run_result'.kind = "None"
           /\ slept' = 12
      ]_vars

C28_Witness ==
    /\ pc = "loop_end"
    /\ slept = 12
    /\ consecutive_errors = 0
    /\ successful_runs = 1
    /\ ~size_exceeded

\* C29: a failure of submit_migration that is no MigrationError adds one to
\* the consecutive-error counter; when that makes 5, run() aborts with
\* TooManyErrors carrying the failure's text, otherwise the loop goes on.
C29_UnknownIsCounted ==
    [][ (pc = "outcome" /\ pc' # pc /\ sm_result.kind = "Anyhow")
        => /\ consecutive_errors' = consecutive_errors + 1
           /\ IF consecutive_errors' >= 5
              THEN /\ pc' = "aborted"
                   /\ run_result'.kind = "TooManyErrors"
                   /\ run_result'.detail.count = consecutive_errors'
                   /\ run_result'.detail.last_error = sm_result.detail
              ELSE pc' = "loop_end" /\ run_result'.kind = "None"
      ]_vars

C29_Witness ==
    /\ pc = "aborted"
    /\ run_result.kind = "TooManyErrors"
    /\ run_result.detail.count = 5
    /\ sm_result.kind = "Anyhow"

\* C30: once the loop is entered, run() ends with an error only through a
\* balance loss or through the consecutive-error ceiling.
C30_OnlyBalanceLossAborts ==
    [][ (pc \notin {"get_max_limits", "set_max_limits", "set_limits_watch",
                    "check_balance"}
            /\ pc' = "aborted" /\ pc # "aborted")
        => run_result'.kind \in {"BalanceDecreased", "TooManyErrors"}
      ]_vars


\* C31: wait_for_pending_tx always terminates. It polls the nonce at most
\* PENDING_TX_TIMEOUT_ITERATIONS = 20 times, each poll after one block interval
\* of sleep; it returns at the first poll whose nonce differs from the initial
\* one and after the 20th poll otherwise; a failed query during polling only
\* uses up its round and raises no error; when the initial query fails it
\* sleeps once (NONCE_RETRY_WAIT_SECS) and returns.  Under fair scheduling of
\* the program's steps every wait that has begun is left.
C31_WaitSteps ==
    /\ \A query_ok \in BOOLEAN :
         WaitInitialNonce(query_ok) =>
           /\ Running'
           /\ IF query_ok
              THEN pc' = "wait_poll" /\ poll_i' = 0 /\ initial_nonce' = chain_nonce
                   /\ slept' = 0
              ELSE pc' = "loop_end" /\ slept' = 30
    /\ \A query_ok \in BOOLEAN :
         WaitPoll(query_ok) =>
           /\ poll_i < 20
           /\ slept = 6 * poll_i
           /\ slept' = 6 * (poll_i + 1)
           /\ Running'
           /\ run_result' = run_result
           /\ IF query_ok /\ chain_nonce # initial_nonce
              THEN pc' = "loop_end"
              ELSE IF poll_i = 19
              THEN pc' = "loop_end"
              ELSE pc' = "wait_poll" /\ poll_i' = poll_i + 1

C31_WaitTerminates ==
    /\ [][C31_WaitSteps]_vars
    /\ (pc \in {"wait_initial", "wait_poll"}) ~> (pc = "loop_end")

\* the 20th poll found the nonce unchanged and the wait returned
C31_Witness == pc = "loop_end" /\ slept = 120 /\ run_result = NoResult

\* C32: an InBestBlock item never ends the finalization wait by itself: when
\* it is consumed before the timeout, submit_migration only sets `included`
\* and goes on reading the stream; and a stream item makes submit_migration
\* return success only when it is InFinalizedBlock or when the timeout has
\* passed and the nonce query shows a nonce above expected_nonce.
C32_InBestBlockKeepsWaiting ==
    [][ (pc = "sm_watch" /\ (pc' # pc \/ included' # included)) =>
        \A ev \in TxStatusChoices, query_ok \in BOOLEAN, events_ok \in BOOLEAN :
          SmStatus(ev, query_ok, events_ok) =>
            /\ (ev = "InBestBlock" /\ elapsed <= 120) =>
                 /\ pc' = "sm_watch"
                 /\ included' = TRUE
                 /\ sm_result' = sm_result
                 /\ successful_runs' = successful_runs
            /\ (pc' = "outcome" /\ sm_result'.kind = "Ok") =>
                 \/ ev = "InFinalizedBlock" /\ elapsed <= 120
                 \/ elapsed > 120 /\ query_ok /\ chain_nonce > expected_nonce
      ]_vars

\* InBestBlock has been consumed and the pipeline still reads the stream
C32_Witness == pc = "sm_watch" /\ included /\ tx_state = "finalized" /\ elapsed = 0

\* C33: when system_dryRun fails with a transport error whose text marks the
\* capability as unavailable, the flag becomes false and the same call goes on
\* to the submission step without a simulation; from then on the flag stays
\* false and no system_dryRun call is made; any other transport error of
\* system_dryRun makes the call return RpcError with the flag as it was.
C33_RpcErrorReplies == {r \in DryRunReplies : r.tag = "RpcError"}

C33_UnavailableDisablesDryRun ==
    [][ /\ pc = "sm_dry_run" =>
             \A reply \in C33_RpcErrorReplies :
                SmDryRun(reply) =>
                  IF Contains(reply.data, <<"unsafe">>)
                  THEN /\ dry_run_supported' = FALSE
                       /\ pc' = "sm_send"
                       /\ dry_run_tx' = TRUE
                       /\ sm_result' = sm_result
                  ELSE /\ dry_run_supported' = dry_run_supported
                       /\ pc' = "outcome"
                       /\ sm_result' = Err("RpcError", reply.data)
        /\ ~dry_run_supported =>
             /\ dry_run_supported' = FALSE
             /\ pc' # "sm_dry_run"
             /\ dry_runs' <= dry_runs
      ]_vars

\* a later call of submit_migration reaches the submission step with the
\* flag false and without any system_dryRun call
C33_Witness ==
    /\ ~dry_run_supported
    /\ successful_runs > 0
    /\ pc = "sm_send"
    /\ dry_run_tx
    /\ dry_runs = 0

\* C34: every continue_migrate operation is built from the witness task that
\* get_migration_task returned in the same iteration of the loop: the witness
\* run() holds is always the one the last fetch returned, it is held only
\* between that fetch and the call that builds the operation (or the return
\* of run() that comes instead of the call), the call consumes it, and no
\* witness is held when an iteration begins.
C34_WitnessHeldAt == {"balance_before", "sm_nonce", "aborted"}

C34_WitnessFresh ==
    [][ /\ pc = "loop_top" =>
             \A query_ok \in BOOLEAN, task \in TaskChoices \cup {NoTask} :
                (RunGetMigrationTask(query_ok, task) /\ pc' = "balance_before")
                   => (query_ok /\ task.present /\ witness_task' = task)
        /\ (witness_task' # witness_task /\ witness_task'.present) => pc = "loop_top"
        /\ (pc = "sm_nonce" /\ pc' = "sm_sign")
              => (witness_task.present /\ ~witness_task'.present)
        /\ witness_task'.present => pc' \in C34_WitnessHeldAt
        /\ pc' = "loop_top" => witness_task' = NoTask
      ]_vars

\* a second operation is being built, from the witness fetched after the
\* first one was submitted
C34_Witness ==
    /\ pc = "sm_nonce"
    /\ witness_task.present
    /\ successful_runs > 0
    /\ cm_sent

\* C35: expected_nonce is the account nonce as it is immediately before the
\* operation is transmitted, after the dry-run and its retries, and never a
\* default put in place of a failed nonce query: at the step that transmits,
\* expected_nonce equals the account's next nonce just before that step.
C35_ExpectedNonceAtTransmission ==
    [][ (pc = "sm_send" /\ pc' = "sm_watch") => expected_nonce' = chain_nonce ]_vars

\* C36: whenever submit_migration returns success through the nonce
\* reconciliation, after the timeout or after an early end of the stream, the
\* operation it transmitted has been applied on chain and is not merely in
\* the pending pool (the next-nonce query counts pool transactions): it is
\* finalized, or its inclusion in a best block has been reported.
C36_ReconciledMeansApplied ==
    [][ (pc = "sm_watch" /\ pc' = "outcome" /\ sm_result'.kind = "Ok"
            /\ sm_exit' \in {"timeout_advanced", "stream_end_advanced"})
        => (tx_state = "finalized" \/ included)
      ]_vars

\* C37: submit_migration transmits an operation only if, in the same call,
\* the dry-run returned Success, or the dry-run capability was already
\* disabled, or it was just found unavailable; with the capability enabled an
\* operation whose simulation was not a confirmed Success is never transmitted.
C37_TransmitOnlyValidated ==
    [][ (pc = "sm_send" /\ (pc' = "sm_watch" \/ sm_exit' = "submit"))
        => dry_run_outcome \in {"success", "disabled", "unavailable"}
      ]_vars

\* C38: whenever set_signed_max_limits is issued because a configured limit
\* exceeds the ceiling read from the chain, the values it carries lower
\* neither ceiling: the size it sets is at least the old size ceiling and the
\* item count it sets is at least the old item ceiling.
C38_CeilingsNeverLowered ==
    [][ (pc = "set_max_limits" /\ limits_sent = "no" /\ limits_sent' = "sent"
            /\ current_limits # NoLimits)
        => /\ config.size_limit >= current_limits[1]
           /\ config.item_limit >= current_limits[2]
      ]_vars

\* C39 (as claimed): the leading marker byte is optional: for every non-empty
\* byte sequence b that starts with a family selector (0 = Invalid or
\* 1 = Unknown), decode_validity_error(b) equals decode_validity_error of b
\* with the marker byte 1 put in front.
C39_MarkerOptional ==
    (fn_call.fn = "decode_validity_error" /\ fn_call.arg # <<>>
        /\ fn_call.arg[1] \in {0, 1})
    => fn_call.res = decode_validity_error(<<1>> \o fn_call.arg)

\* C39 (amended): the leading marker byte is optional before the Invalid
\* family: for every non-empty byte sequence b that starts with the family
\* selector 0, decode_validity_error(b) equals decode_validity_error of b with
\* the marker byte 1 put in front.
C39_MarkerOptionalForInvalid ==
    (fn_call.fn = "decode_validity_error" /\ fn_call.arg # <<>>
        /\ fn_call.arg[1] = 0)
    => fn_call.res = decode_validity_error(<<1>> \o fn_call.arg)

\* [0, 3] has been decoded to Stale, as [1, 0, 3] is
C39_Witness ==
    /\ fn_call.fn = "decode_validity_error"
    /\ fn_call.arg = <<0, 3>>
    /\ fn_call.res = VE("Stale")
    /\ decode_validity_error(<<1, 0, 3>>) = VE("Stale")
====
